---- MODULE Spec2Model ----
(***************************************************************************)
(* A model of construct-cache-fixer (src/src/main.py): the archive is      *)
(* extracted, every asset is located, the source files that use it are     *)
(* rewritten to a suffixed name and the asset file is renamed.             *)
(*                                                                         *)
(* Text is a sequence of one-character strings.  A path is a record        *)
(* [dir, name]: the directory below the extraction root and the file name. *)
(***************************************************************************)
EXTENDS Integers, Sequences, FiniteSets, TLC

----------------------------------------------------------------------------
(* Strings *)

\* The characters the regular expression class \w matches; \W is the rest.
WordChars ==
    { "a","b","c","d","e","f","g","h","i","j","k","l","m","n","o","p","q",
      "r","s","t","u","v","w","x","y","z",
      "A","B","C","D","E","F","G","H","I","J","K","L","M","N","O","P","Q",
      "R","S","T","U","V","W","X","Y","Z",
      "0","1","2","3","4","5","6","7","8","9","_" }

IsWordChar(c) == c \in WordChars

\* s[from..] without the first n characters
Drop(s, n) == SubSeq(s, n + 1, Len(s))

StartsWith(s, p) == Len(p) <= Len(s) /\ SubSeq(s, 1, Len(p)) = p

EndsWith(s, p) == Len(p) <= Len(s) /\ Drop(s, Len(s) - Len(p)) = p

\* str.rfind('.'), 1-based, 0 when there is no dot
RFindDot(s) ==
    LET dots == { i \in 1..Len(s) : s[i] = "." }
    IN  IF dots = {} THEN 0 ELSE CHOOSE i \in dots : \A j \in dots : j <= i

\* PurePath.suffix: the last dot and what follows it, unless the dot is the
\* first or the last character of the name
Suffix(name) ==
    LET i == RFindDot(name)
    IN  IF 1 < i /\ i < Len(name) THEN Drop(name, i - 1) ELSE <<>>

\* PurePath.stem: the name without its suffix
Stem(name) ==
    LET i == RFindDot(name)
    IN  IF 1 < i /\ i < Len(name) THEN SubSeq(name, 1, i - 1) ELSE name

\* PurePath.with_stem(stem): with_name(stem + suffix)
WithStem(path, stem) == [path EXCEPT !.name = stem \o Suffix(path.name)]

\* file.readlines(): the text cut after every newline, newlines kept
RECURSIVE ReadLines(_)
ReadLines(text) ==
    IF text = <<>> THEN <<>>
    ELSE LET nl == { i \in 1..Len(text) : text[i] = "\n" }
         IN  IF nl = {} THEN <<text>>
             ELSE LET i == CHOOSE k \in nl : \A j \in nl : k <= j
                  IN  <<SubSeq(text, 1, i)>> \o ReadLines(Drop(text, i))

\* RegexSearch without the two \W: the name anywhere in the line
RegexSearch_Substring(name, line) ==
    \E i \in 1..Len(line) :
        /\ i + Len(name) - 1 <= Len(line)
        /\ SubSeq(line, i, i + Len(name) - 1) = name

\* re.compile("\W" + re.escape(name) + "\W").search(line)
RegexSearch(name, line) ==
    \E i \in 1..Len(line) :
        /\ i + Len(name) + 1 <= Len(line)
        /\ ~IsWordChar(line[i])
        /\ SubSeq(line, i + 1, i + Len(name)) = name
        /\ ~IsWordChar(line[i + Len(name) + 1])

\* str.replace(old, new, 1): the first occurrence only
RECURSIVE StrReplace_First(_, _, _)
StrReplace_First(s, old, new) ==
    IF Len(s) < Len(old) \/ old = <<>> THEN s
    ELSE IF StartsWith(s, old)
         THEN new \o Drop(s, Len(old))
         ELSE <<Head(s)>> \o StrReplace_First(Tail(s), old, new)

\* str.replace(old, new): every non-overlapping occurrence, leftmost first
\* (old is a reference name, which is never empty)
RECURSIVE StrReplace(_, _, _)
StrReplace(s, old, new) ==
    IF Len(s) < Len(old) \/ old = <<>> THEN s
    ELSE IF StartsWith(s, old)
         THEN new \o StrReplace(Drop(s, Len(old)), old, new)
         ELSE <<Head(s)>> \o StrReplace(Tail(s), old, new)

----------------------------------------------------------------------------
(* Constants of the program *)

css  == <<"c","s","s">>
js   == <<"j","s">>
json == <<"j","s","o","n">>
png  == <<"p","n","g">>
ttf  == <<"t","t","f">>
wasm == <<"w","a","s","m">>
webm == <<"w","e","b","m">>
html == <<"h","t","m","l">>

\* "*.ext" for each entry, in list order
ASSETS_PATTERNS == <<css, js, json, png, ttf, wasm, webm>>

\* the patterns search_for_asset_uses lists, in order
SOURCE_PATTERNS == <<html, js, json>>

\* generate_random_string(length = 8)
SuffixLen == 8

\* two of the characters of ascii_letters + digits
SuffixChars == {"A", "7"}

\* the strings generate_random_string draws from in the model
Suffixes == { [i \in 1..SuffixLen |-> c] : c \in SuffixChars }

----------------------------------------------------------------------------
(* The file system *)

\* directories of the extracted tree, in rglob's order: the root, then below
DirOrder == <<".", "m">>

NoPath == [dir |-> "", name |-> <<>>]

\* the glob pattern "*.ext" against a file name
FnMatch(name, ext) == EndsWith(name, <<".">> \o ext)

\* the entries of directory d of tree that match "*.ext"
Listing(tree, ext, d) ==
    { p \in DOMAIN tree : p.dir = d /\ FnMatch(p.name, ext) }

\* every ordering of a finite set
Orderings(S) ==
    { q \in [1..Cardinality(S) -> S] :
        \A i, j \in 1..Cardinality(S) : i # j => q[i] # q[j] }

\* folder_path.rglob("*.ext") as a list: directory by directory, the entries
\* of one directory in any order
RGlobLists(tree, ext) ==
    { a \o b : a \in Orderings(Listing(tree, ext, DirOrder[1])),
               b \in Orderings(Listing(tree, ext, DirOrder[2])) }

\* Path.rename(target): the file moves, a file at the target is replaced
RenameFile(tree, from, to) ==
    [p \in (DOMAIN tree \ {from}) \cup {to} |->
        IF p = to THEN tree[from] ELSE tree[p]]

\* archive_path.parent / archive_path.stem
ExtractPath(archive_path) ==
    [dir |-> archive_path.dir, name |-> Stem(archive_path.name)]

----------------------------------------------------------------------------
(* Inputs: the archives the model is run on *)

\* the most fragments a text of a.html is made of
MaxFrags == 2

\* the most executions of main on the same archive
MaxRuns == 2

FileName(stem, ext) == stem \o <<".">> \o ext

XPng   == [dir |-> ".", name |-> FileName(<<"x">>, png)]
BXPng  == [dir |-> ".", name |-> FileName(<<"b","_","x">>, png)]
MXPng  == [dir |-> "m", name |-> FileName(<<"x">>, png)]
XWebm  == [dir |-> ".", name |-> FileName(<<"x">>, webm)]
CJs    == [dir |-> ".", name |-> FileName(<<"c">>, js)]
AHtml  == [dir |-> ".", name |-> FileName(<<"a">>, html)]
BHtml  == [dir |-> ".", name |-> FileName(<<"b">>, html)]

\* assets without text
BinaryAssets == {XPng, BXPng, MXPng, XWebm}

Quoted(s) == <<"\"">> \o s \o <<"\"", "\n">>

\* pieces of text: a name in quotes on a line of its own, a name that starts
\* its line, and a name that ends a text with no newline after it
QuotedX    == Quoted(XPng.name)
QuotedBX   == Quoted(BXPng.name)
QuotedStem == Quoted(Stem(XWebm.name))
QuotedC    == Quoted(CJs.name)
LineStartX == XPng.name \o <<"\n">>
TextEndX   == <<" ">> \o XPng.name

Fragments == {QuotedX, QuotedBX, QuotedStem, QuotedC, LineStartX, TextEndX}

RECURSIVE TextsOf(_)
TextsOf(n) ==
    IF n = 0 THEN {<<>>}
    ELSE TextsOf(n - 1) \cup { t \o f : t \in TextsOf(n - 1), f \in Fragments }

\* the trees of the archives: one or two assets, a.html with any text,
\* b.html absent or naming b_x.png, and c.js (an asset and a source file)
\* empty or naming itself.  No file of a tree is named like another file
\* of it with a suffix of Suffixes added, so a rename never meets a file
\* at its target.
TreeOf(assets, ta, withB, tc) ==
    [p \in assets \cup {AHtml} \cup (IF withB THEN {BHtml} ELSE {}) |->
        IF p = AHtml THEN ta
        ELSE IF p = BHtml THEN QuotedBX
        ELSE IF p = CJs THEN tc
        ELSE <<>>]

AssetSets ==
    { S \in SUBSET (BinaryAssets \cup {CJs}) : Cardinality(S) \in 1..2 }

Trees(texts) ==
    { TreeOf(S, ta, withB, tc) :
        S \in AssetSets, ta \in texts, withB \in BOOLEAN,
        tc \in {<<>>, QuotedC} }

ArchivePath == [dir |-> "d", name |-> FileName(<<"g">>, <<"z","i","p">>)]

\* an archive on disk with its tree, or no file at the path
Archives(texts) ==
    { [exists |-> TRUE, tree |-> t] : t \in Trees(texts) }
    \cup { [exists |-> FALSE, tree |-> <<>>] }

----------------------------------------------------------------------------
(* State *)

VARIABLES
    archive,      \* the archive at ArchivePath: [exists, tree]
    dirExists,    \* the directory ExtractPath(ArchivePath) exists on disk
    fs,           \* the files below that directory: path -> text
    pc,           \* where main stands
    error,        \* the exception that ended main, "none" otherwise
    extract_path, \* main's local: the value extract_zip returned
    assets,       \* the identify_assets generator: [pos, listing]
    asset,        \* main's loop variable
    new_asset,    \* main's local
    asset_uses,   \* the search_for_asset_uses generator: [started, queue, found]
    asset_use,    \* main's inner loop variable
    runs,         \* executions of main started so far
    \* history, read by the properties only
    fs0,          \* fs when identify_assets was called in this execution
    yielded,      \* the assets identify_assets has yielded in this execution
    renamed,      \* the [from, to] of every Path.rename of this execution
    fsA,          \* fs when the current asset was yielded
    replaced,     \* the source files replace_asset_uses was called on for asset
    extracts      \* the extract_zip calls so far: [path, skipped, wrote]

prog == <<archive, dirExists, fs, pc, error, extract_path, assets, asset,
          new_asset, asset_uses, asset_use, runs>>
hist == <<fs0, yielded, renamed, fsA, replaced, extracts>>
vars == <<prog, hist>>

NoAssets == [pos |-> 0, listing |-> {}]
NoUses   == [started |-> FALSE, queue |-> <<>>, found |-> FALSE]

InitWith(texts) ==
    /\ archive \in Archives(texts)
    /\ dirExists = FALSE
    /\ fs = <<>>
    /\ pc = "main"
    /\ error = "none"
    /\ extract_path = NoPath
    /\ assets = NoAssets
    /\ asset = NoPath
    /\ new_asset = NoPath
    /\ asset_uses = NoUses
    /\ asset_use = NoPath
    /\ runs = 1
    /\ fs0 = <<>>
    /\ yielded = <<>>
    /\ renamed = <<>>
    /\ fsA = <<>>
    /\ replaced = <<>>
    /\ extracts = <<>>

Init == InitWith(TextsOf(MaxFrags))

----------------------------------------------------------------------------
(* Reference names *)

\* line 140: asset.stem if asset.suffix == '.webm' else asset.name
asset_name(a) ==
    IF Suffix(a.name) = <<".">> \o webm THEN Stem(a.name) ELSE a.name

\* line 178
old_asset_name(old) ==
    IF Suffix(old.name) = <<".">> \o webm THEN Stem(old.name) ELSE old.name

\* new_asset_name without the webm rule: always the file name
new_asset_name_Full(new) == new.name

\* line 179
new_asset_name(new) ==
    IF Suffix(new.name) = <<".">> \o webm THEN Stem(new.name) ELSE new.name

\* lines 145-153 for one source file: some line of it matches
FileUses(text, a) ==
    LET lines == ReadLines(text)
    IN  \E k \in 1..Len(lines) : RegexSearch(asset_name(a), lines[k])

\* lines 130-134: the list of source files, html then js then json
SourceLists(tree) ==
    { h \o j \o k : h \in RGlobLists(tree, SOURCE_PATTERNS[1]),
                    j \in RGlobLists(tree, SOURCE_PATTERNS[2]),
                    k \in RGlobLists(tree, SOURCE_PATTERNS[3]) }

\* the first file of queue that uses asset a, 0 when none does
FirstUse(queue, tree, a) ==
    LET hits == { i \in 1..Len(queue) : FileUses(tree[queue[i]], a) }
    IN  IF hits = {} THEN 0 ELSE CHOOSE i \in hits : \A j \in hits : i <= j

----------------------------------------------------------------------------
(* identify_assets: the position k stands for pattern PatOf(k), directory  *)
(* DirOf(k); rglob lists a directory when it reaches it and yields from     *)
(* that list                                                                *)

NDirs == Len(DirOrder)
NPos  == Len(ASSETS_PATTERNS) * NDirs
PatOf(k) == ASSETS_PATTERNS[((k - 1) \div NDirs) + 1]
DirOf(k) == DirOrder[((k - 1) % NDirs) + 1]

Snapshot(tree, k) == Listing(tree, PatOf(k), DirOf(k))

\* the first position from k on whose directory has a matching entry
RECURSIVE Advance(_, _)
Advance(tree, k) ==
    IF k > NPos THEN [pos |-> NPos + 1, listing |-> {}]
    ELSE IF Snapshot(tree, k) # {}
         THEN [pos |-> k, listing |-> Snapshot(tree, k)]
         ELSE Advance(tree, k + 1)

----------------------------------------------------------------------------
(* main *)

\* lines 205-206: the archive does not exist
ArchiveMissing ==
    /\ pc = "main"
    /\ ~archive.exists
    /\ pc' = "error"
    /\ error' = "archive"
    /\ UNCHANGED <<archive, dirExists, fs, extract_path, assets, asset,
                   new_asset, asset_uses, asset_use, runs, hist>>

\* ExtractZip without the test of line 78: it extracts on every call
ExtractZip_Always ==
    /\ pc = "main"
    /\ archive.exists
    /\ LET path == ExtractPath(ArchivePath)
           tree == [p \in DOMAIN fs \cup DOMAIN archive.tree |->
                      IF p \in DOMAIN archive.tree THEN archive.tree[p]
                      ELSE fs[p]]
       IN  /\ fs' = tree
           /\ dirExists' = TRUE
           /\ extract_path' = path
           /\ extracts' = Append(extracts,
                  [path |-> path, skipped |-> FALSE,
                   wrote |-> (tree # fs \/ ~dirExists)])
           /\ fs0' = tree
    /\ assets' = NoAssets
    /\ yielded' = <<>>
    /\ renamed' = <<>>
    /\ pc' = "assets"
    /\ UNCHANGED <<archive, error, asset, new_asset, asset_uses, asset_use,
                   runs, fsA, replaced>>

\* lines 208-209: extract_zip, then the identify_assets generator is made
ExtractZip ==
    /\ pc = "main"
    /\ archive.exists
    /\ LET path == ExtractPath(ArchivePath)
           skip == dirExists
           tree == IF skip THEN fs ELSE archive.tree
       IN  /\ fs' = tree
           /\ dirExists' = TRUE
           /\ extract_path' = path
           /\ extracts' = Append(extracts,
                  [path |-> path, skipped |-> skip,
                   wrote |-> (tree # fs \/ ~dirExists)])
           /\ fs0' = tree
    /\ assets' = NoAssets
    /\ yielded' = <<>>
    /\ renamed' = <<>>
    /\ pc' = "assets"
    /\ UNCHANGED <<archive, error, asset, new_asset, asset_uses, asset_use,
                   runs, fsA, replaced>>

\* NextAsset listing the directory anew on every next() instead of
\* yielding from the list taken when the directory was reached
NextAsset_Relist ==
    /\ pc = "assets"
    /\ LET g == Advance(fs, IF assets.pos = 0 THEN 1 ELSE assets.pos)
       IN  IF g.listing = {}
           THEN /\ assets' = g
                /\ pc' = "done"
                /\ UNCHANGED <<asset, yielded, fsA, replaced>>
           ELSE \E a \in g.listing :
                /\ assets' = [g EXCEPT !.listing = @ \ {a}]
                /\ asset' = a
                /\ yielded' = Append(yielded, a)
                /\ fsA' = fs
                /\ replaced' = <<>>
                /\ pc' = "rename_asset"
    /\ UNCHANGED <<archive, dirExists, fs, error, extract_path, new_asset,
                   asset_uses, asset_use, runs, fs0, renamed, extracts>>

\* line 211: next(assets), lines 106-112
NextAsset ==
    /\ pc = "assets"
    /\ LET g == IF assets.listing # {} THEN assets
                ELSE Advance(fs, assets.pos + 1)
       IN  IF g.listing = {}
           THEN /\ assets' = g
                /\ pc' = "done"
                /\ UNCHANGED <<asset, yielded, fsA, replaced>>
           ELSE \E a \in g.listing :
                /\ assets' = [g EXCEPT !.listing = @ \ {a}]
                /\ asset' = a
                /\ yielded' = Append(yielded, a)
                /\ fsA' = fs
                /\ replaced' = <<>>
                /\ pc' = "rename_asset"
    /\ UNCHANGED <<archive, dirExists, fs, error, extract_path, new_asset,
                   asset_uses, asset_use, runs, fs0, renamed, extracts>>

\* lines 214-215: the search generator is made, rename_asset (lines 60-63)
RenameAsset ==
    /\ pc = "rename_asset"
    /\ \E suffix \in Suffixes :
          new_asset' = WithStem(asset, Stem(asset.name) \o <<"_">> \o suffix)
    /\ asset_uses' = NoUses
    /\ pc' = "uses"
    /\ UNCHANGED <<archive, dirExists, fs, error, extract_path, assets, asset,
                   asset_use, runs, hist>>

\* NextUse without the raise of line 156: an asset nobody uses is renamed
NextUse_NoRaise ==
    /\ pc = "uses"
    /\ \E queue \in (IF asset_uses.started THEN {asset_uses.queue}
                     ELSE SourceLists(fs)) :
          LET i == FirstUse(queue, fs, asset)
          IN  IF i > 0
              THEN /\ asset_use' = queue[i]
                   /\ asset_uses' = [started |-> TRUE,
                                     queue |-> Drop(queue, i), found |-> TRUE]
                   /\ pc' = "replace"
              ELSE /\ asset_uses' = [started |-> TRUE, queue |-> <<>>,
                                     found |-> asset_uses.found]
                   /\ asset_use' = asset_use
                   /\ pc' = "rename"
    /\ UNCHANGED <<archive, dirExists, fs, error, extract_path, assets, asset,
                   new_asset, runs, hist>>

\* NextUse ending the generator after its first yield (a return for the
\* break of line 153)
NextUse_StopAfterFirst ==
    /\ pc = "uses"
    /\ \E queue \in (IF asset_uses.started THEN {asset_uses.queue}
                     ELSE SourceLists(fs)) :
          LET i == FirstUse(queue, fs, asset)
          IN  IF i > 0
              THEN /\ asset_use' = queue[i]
                   /\ asset_uses' = [started |-> TRUE, queue |-> <<>>,
                                     found |-> TRUE]
                   /\ pc' = "replace"
                   /\ error' = error
              ELSE /\ asset_uses' = [started |-> TRUE, queue |-> <<>>,
                                     found |-> asset_uses.found]
                   /\ asset_use' = asset_use
                   /\ IF asset_uses.found
                      THEN pc' = "rename" /\ error' = error
                      ELSE pc' = "error" /\ error' = "asset"
    /\ UNCHANGED <<archive, dirExists, fs, extract_path, assets, asset,
                   new_asset, runs, hist>>

\* line 217: next(asset_uses), lines 130-156
NextUse ==
    /\ pc = "uses"
    /\ \E queue \in (IF asset_uses.started THEN {asset_uses.queue}
                     ELSE SourceLists(fs)) :
          LET i == FirstUse(queue, fs, asset)
          IN  IF i > 0
              THEN /\ asset_use' = queue[i]
                   /\ asset_uses' = [started |-> TRUE,
                                     queue |-> Drop(queue, i), found |-> TRUE]
                   /\ pc' = "replace"
                   /\ error' = error
              ELSE /\ asset_uses' = [started |-> TRUE, queue |-> <<>>,
                                     found |-> asset_uses.found]
                   /\ asset_use' = asset_use
                   /\ IF asset_uses.found
                      THEN pc' = "rename" /\ error' = error
                      ELSE pc' = "error" /\ error' = "asset"
    /\ UNCHANGED <<archive, dirExists, fs, extract_path, assets, asset,
                   new_asset, runs, hist>>

\* ReplaceAssetUses rewriting every source file, not the one it was given
ReplaceAssetUses_Everywhere ==
    /\ pc = "replace"
    /\ fs' = [p \in DOMAIN fs |->
                 IF \E k \in 1..Len(SOURCE_PATTERNS) :
                        FnMatch(p.name, SOURCE_PATTERNS[k])
                 THEN StrReplace(fs[p], old_asset_name(asset),
                                 new_asset_name(new_asset))
                 ELSE fs[p]]
    /\ replaced' = Append(replaced, asset_use)
    /\ pc' = "uses"
    /\ UNCHANGED <<archive, dirExists, error, extract_path, assets, asset,
                   new_asset, asset_uses, asset_use, runs, fs0, yielded,
                   renamed, fsA, extracts>>

\* line 218: replace_asset_uses(asset_use, asset, new_asset), lines 175-184
ReplaceAssetUses ==
    /\ pc = "replace"
    /\ fs' = [fs EXCEPT ![asset_use] =
                 StrReplace(@, old_asset_name(asset), new_asset_name(new_asset))]
    /\ replaced' = Append(replaced, asset_use)
    /\ pc' = "uses"
    /\ UNCHANGED <<archive, dirExists, error, extract_path, assets, asset,
                   new_asset, asset_uses, asset_use, runs, fs0, yielded,
                   renamed, fsA, extracts>>

\* line 221: asset.rename(new_asset)
Rename ==
    /\ pc = "rename"
    /\ fs' = RenameFile(fs, asset, new_asset)
    /\ renamed' = Append(renamed, [from |-> asset, to |-> new_asset])
    /\ pc' = "assets"
    /\ UNCHANGED <<archive, dirExists, error, extract_path, assets, asset,
                   new_asset, asset_uses, asset_use, runs, fs0, yielded, fsA,
                   replaced, extracts>>

\* the tool is started again on the same archive, after main returned or
\* raised
Rerun ==
    /\ pc \in {"done", "error"}
    /\ runs < MaxRuns
    /\ runs' = runs + 1
    /\ pc' = "main"
    /\ error' = "none"
    /\ extract_path' = NoPath
    /\ assets' = NoAssets
    /\ asset' = NoPath
    /\ new_asset' = NoPath
    /\ asset_uses' = NoUses
    /\ asset_use' = NoPath
    /\ UNCHANGED <<archive, dirExists, fs, hist>>

Next ==
    \/ ArchiveMissing
    \/ ExtractZip
    \/ NextAsset
    \/ RenameAsset
    \/ NextUse
    \/ ReplaceAssetUses
    \/ Rename

\* one execution of main
Spec == Init /\ [][Next]_vars

\* main executed up to MaxRuns times on the same archive
RerunTexts == {QuotedX \o QuotedStem, QuotedX \o QuotedBX, QuotedC \o QuotedX}

RerunInit == InitWith(RerunTexts)

RerunNext == Next \/ Rerun

RerunSpec == RerunInit /\ [][RerunNext]_vars

----------------------------------------------------------------------------
(* Vocabulary of the properties, stated without the program's operators *)

Range(q) == { q[i] : i \in 1..Len(q) }

Last(q) == q[Len(q)]

AlphaNum == WordChars \ {"_"}

DotWebm == <<".", "w", "e", "b", "m">>

\* the reference name of an asset: the stem for a webm file, else the name
RefNameOf(a) ==
    IF EndsWith(a.name, DotWebm) /\ Len(a.name) > Len(DotWebm)
    THEN SubSeq(a.name, 1, Len(a.name) - Len(DotWebm))
    ELSE a.name

\* where name occurs in text
Occurrences(name, text) ==
    { i \in 1..(Len(text) - Len(name) + 1) :
        SubSeq(text, i, i + Len(name) - 1) = name }

WordBefore(text, i) == i > 1 /\ IsWordChar(text[i - 1])

WordAfter(name, text, i) ==
    i + Len(name) <= Len(text) /\ IsWordChar(text[i + Len(name)])

\* the occurrences of name as a whole word: no word character on either side
Standalone(name, text) ==
    { i \in Occurrences(name, text) :
        ~WordBefore(text, i) /\ ~WordAfter(name, text, i) }

\* the occurrence at i starts a line, or ends a line or the text
AtLineBoundary(name, text, i) ==
    \/ i = 1
    \/ text[i - 1] = "\n"
    \/ i + Len(name) - 1 = Len(text)
    \/ text[i + Len(name)] = "\n"

SourcesOf(tree) ==
    { p \in DOMAIN tree :
        \E e \in {html, js, json} : EndsWith(p.name, <<".">> \o e) }

AssetsOf(tree) ==
    { p \in DOMAIN tree :
        \E e \in {css, js, json, png, ttf, wasm, webm} :
            EndsWith(p.name, <<".">> \o e) }

\* the asset of the current iteration of main's loop has been renamed
AssetRenamed ==
    /\ asset # NoPath
    /\ renamed # <<>>
    /\ Last(renamed).from = asset

\* where a file that was at path f when the asset was yielded is now
Now(f) == IF f = asset /\ AssetRenamed THEN new_asset ELSE f

\* the scan of the source files for the current asset has ended
ScanEnded ==
    /\ asset # NoPath
    /\ \/ pc \in {"rename", "assets", "done"}
       \/ pc = "error" /\ error = "asset"

----------------------------------------------------------------------------
(* Properties *)

\* no source file holds the current asset's reference name as a whole word
Orphan ==
    /\ asset # NoPath
    /\ \A f \in SourcesOf(fsA) : Standalone(RefNameOf(asset), fsA[f]) = {}

\* C1: an asset whose reference name no source file holds as a whole word
\* makes search_for_asset_uses raise on its first next(): main is about to
\* call it or has ended with that error, the asset file is still at its
\* path, no rename was made for it and no source file was rewritten.
C1_OrphanRaises ==
    Orphan =>
        /\ pc \in {"rename_asset", "uses", "error"}
        /\ pc = "uses" => ~asset_uses.started
        /\ pc = "error" => error = "asset"
        /\ asset \in DOMAIN fs
        /\ \A i \in 1..Len(renamed) : renamed[i].from # asset
        /\ fs = fsA
        /\ replaced = <<>>

\* an orphan whose name occurs in a source file, inside a longer word, has
\* ended main with the error
C1_Witness ==
    /\ Orphan
    /\ pc = "error"
    /\ error = "asset"
    /\ \E f \in SourcesOf(fsA) : Occurrences(RefNameOf(asset), fsA[f]) # {}

\* C2: once the asset file is no longer at its path, replace_asset_uses has
\* been called on every source file the scanner reports for that asset.
C2_RenameAfterRewrites ==
    (asset # NoPath /\ asset \notin DOMAIN fs) =>
        \A f \in SourcesOf(fsA) :
            FileUses(fsA[f], asset) => f \in Range(replaced)

\* an asset used by two source files has been renamed
C2_Witness ==
    /\ asset # NoPath
    /\ asset \notin DOMAIN fs
    /\ Cardinality({ f \in SourcesOf(fsA) : FileUses(fsA[f], asset) }) = 2

\* the files the scanner has yielded for the current asset
Yielded ==
    Range(replaced) \cup (IF pc = "replace" THEN {asset_use} ELSE {})

\* new is old with "_" and SuffixLen letters or digits put before the last
\* dot of the name, in the same directory
Suffixed(old, new) ==
    LET n == old.name
        m == new.name
        dots == { i \in 1..Len(n) : n[i] = "." }
        d == CHOOSE i \in dots : \A j \in dots : j <= i
    IN  /\ new.dir = old.dir
        /\ dots # {}
        /\ Len(m) = Len(n) + 1 + SuffixLen
        /\ SubSeq(m, 1, d - 1) = SubSeq(n, 1, d - 1)
        /\ m[d] = "_"
        /\ \A i \in (d + 1)..(d + SuffixLen) : m[i] \in AlphaNum
        /\ SubSeq(m, d + 1 + SuffixLen, Len(m)) = SubSeq(n, d, Len(n))

\* C3: when an asset has been processed, its file is gone from the old path
\* and is at the new one, which is the old stem, "_", 8 letters or digits
\* and the old extension in the same directory; every source file rewritten
\* for it holds the new reference name and holds the old one nowhere as a
\* whole word.
C3_RoundTrip ==
    AssetRenamed =>
        /\ asset \notin DOMAIN fs
        /\ new_asset \in DOMAIN fs
        /\ Suffixed(asset, new_asset)
        /\ \A f \in Range(replaced) :
              /\ Occurrences(RefNameOf(new_asset), fs[Now(f)]) # {}
              /\ Standalone(RefNameOf(asset), fs[Now(f)]) = {}

\* x.png, which a.html named on two lines, has been processed
C3_Witness ==
    /\ AssetRenamed
    /\ asset = XPng
    /\ AHtml \in Range(replaced)
    /\ Cardinality(Standalone(XPng.name, fsA[AHtml])) = 2

\* C4: every source file the scanner yields for an asset holds the asset's
\* reference name at least once with no word character right before it and
\* none right after it.
C4_NoPartialWord ==
    \A f \in Yielded : Standalone(RefNameOf(asset), fsA[f]) # {}

\* the scan has ended without yielding a source file that holds the
\* reference name inside longer words only, while it yielded another file
C4_Witness ==
    /\ ScanEnded
    /\ replaced # <<>>
    /\ \E f \in SourcesOf(fsA) \ Range(replaced) :
          /\ Occurrences(RefNameOf(asset), fsA[f]) # {}
          /\ Standalone(RefNameOf(asset), fsA[f]) = {}

\* C5: a source file whose only occurrence of the reference name is a whole
\* word at the start of a line, or at the end of a line or of the text, is
\* yielded by the scanner.
C5_LineBoundaryMatches ==
    ScanEnded =>
        \A f \in SourcesOf(fsA) :
            LET name == RefNameOf(asset)
                occ == Occurrences(name, fsA[f])
            IN  ( /\ Cardinality(occ) = 1
                  /\ occ = Standalone(name, fsA[f])
                  /\ \A i \in occ : AtLineBoundary(name, fsA[f], i) )
                => f \in Range(replaced)

\* the reference name of asset a once the suffix sfx is in its file name:
\* stem_sfx for a webm file, stem_sfx.ext for any other
NewRefNameOf(a, sfx) ==
    LET n == a.name
        dots == { i \in 1..Len(n) : n[i] = "." }
        d == CHOOSE i \in dots : \A j \in dots : j <= i
    IN  IF EndsWith(n, DotWebm) /\ Len(n) > Len(DotWebm)
        THEN SubSeq(n, 1, d - 1) \o <<"_">> \o sfx
        ELSE SubSeq(n, 1, d - 1) \o <<"_">> \o sfx \o SubSeq(n, d, Len(n))

\* C6: the scanner looks for, and the rewriter replaces, the stem of a webm
\* asset and the full file name of any other asset; the rewriter puts in
\* stem_<suffix> for a webm asset and stem_<suffix>.ext for any other: every
\* file yielded holds the old reference name, and every file rewritten is
\* its text at the time the asset was yielded with each occurrence of the
\* old reference name replaced by the new one.
C6_ReferenceNameRule ==
    asset # NoPath =>
        /\ \A f \in Yielded : Occurrences(RefNameOf(asset), fsA[f]) # {}
        /\ replaced # <<>> =>
              \E sfx \in Suffixes :
                  \A f \in Range(replaced) :
                      fs[Now(f)] = StrReplace(fsA[f], RefNameOf(asset),
                                              NewRefNameOf(asset, sfx))

\* a source file has been rewritten for a webm asset
C6_Witness ==
    /\ asset = XWebm
    /\ replaced # <<>>
    /\ fs[Last(replaced)] # fsA[Last(replaced)]

\* the sibling of the archive that is named by the archive's stem
SiblingDir == [dir |-> ArchivePath.dir, name |-> <<"g">>]

\* C7: only the first call of extract_zip on an archive extracts; a later
\* call returns the same path, the sibling directory named by the archive's
\* stem, and writes nothing: the directory and its files are as they were.
C7_ExtractOnce ==
    \A i \in 1..Len(extracts) :
        /\ extracts[i].path = SiblingDir
        /\ i = 1 => ~extracts[i].skipped
        /\ i > 1 => extracts[i].skipped /\ ~extracts[i].wrote

\* extract_zip has been called a second time, on a directory in which a
\* first execution renamed an asset
C7_Witness ==
    /\ Len(extracts) = 2
    /\ pc = "assets"
    /\ fs # archive.tree
    /\ dirExists

\* where a file of the tree the execution started on is at its end
Final(p) ==
    LET hits == { i \in 1..Len(renamed) : renamed[i].from = p }
    IN  IF hits = {} THEN p ELSE renamed[CHOOSE i \in hits : TRUE].to

\* C8: when main has returned, a source file that held the reference name
\* of an asset as a whole word before the execution holds, as a whole word,
\* the reference name that asset's file has now.
C8_NoDanglingReference ==
    pc = "done" =>
        \A f \in SourcesOf(fs0) : \A a \in AssetsOf(fs0) :
            Standalone(RefNameOf(a), fs0[f]) # {}
                => Standalone(RefNameOf(Final(a)), fs[Final(f)]) # {}

\* C9: identify_assets yields only files of the tree the execution started
\* on, each at most once, and never a file that a rename produced; every
\* asset yielded before the current one has been renamed once; when main
\* returns every asset of the starting tree has been yielded and renamed,
\* so the renames are as many as the assets the tree started with.
C9_EachAssetOnce ==
    /\ \A i \in 1..Len(yielded) :
          /\ yielded[i] \in AssetsOf(fs0)
          /\ \A j \in 1..Len(yielded) : yielded[j] = yielded[i] => j = i
          /\ \A j \in 1..Len(renamed) : renamed[j].to # yielded[i]
    /\ Len(renamed) <= Len(yielded)
    /\ \A j \in 1..Len(renamed) : renamed[j].from = yielded[j]
    /\ pc = "done" =>
          /\ Range(yielded) = AssetsOf(fs0)
          /\ Len(renamed) = Cardinality(AssetsOf(fs0))

\* main has returned after renaming two assets that one directory listing
\* held for the same pattern
C9_Witness ==
    /\ pc = "done"
    /\ Len(renamed) = 2
    /\ {renamed[1].from, renamed[2].from} = {XPng, BXPng}

\* C10: while an asset is processed, replace_asset_uses has been called at
\* most once on a file, and only on source files the scanner reports for
\* the asset; once the scan has ended it has been called on each of them;
\* every file other than these and the asset itself is at its path with the
\* text it had, the asset file moves to the new path and nowhere else, and
\* no other path appears.
C10_Frame ==
    asset # NoPath =>
        /\ \A i, j \in 1..Len(replaced) : replaced[i] = replaced[j] => i = j
        /\ \A f \in Yielded : f \in SourcesOf(fsA) /\ FileUses(fsA[f], asset)
        /\ (ScanEnded /\ ~Orphan) =>
              Range(replaced) =
                  { f \in SourcesOf(fsA) : FileUses(fsA[f], asset) }
        /\ \A p \in DOMAIN fsA \ (Range(replaced) \cup {asset}) :
              p \in DOMAIN fs /\ fs[p] = fsA[p]
        /\ DOMAIN fs = { Now(p) : p \in DOMAIN fsA }
        /\ asset \notin Range(replaced) => fs[Now(asset)] = fsA[asset]

\* an asset has been renamed while a source file that holds its reference
\* name inside a longer word only was left as it was, and a file with two
\* matching lines was rewritten
C10_Witness ==
    /\ AssetRenamed
    /\ \E f \in Range(replaced) :
          Cardinality(Standalone(RefNameOf(asset), fsA[f])) = 2
    /\ \E f \in SourcesOf(fsA) \ Range(replaced) :
          /\ Occurrences(RefNameOf(asset), fsA[f]) # {}
          /\ fs[f] = fsA[f]

====
